---- MODULE Spec2Model ----
(***************************************************************************)
(* A model of claude-dialog: the argument parser (cli.rs), the prompt      *)
(* loader (prompt.rs), the command builder and process runner              *)
(* (claude_executor.rs), the interactive loop (dialog.rs) and main         *)
(* (main.rs).                                                              *)
(*                                                                         *)
(* Text is a sequence of one-character strings, so that trimming,          *)
(* lower-casing and joining are computed character by character.           *)
(* Option<T> is a sequence of length 0 (None) or 1 (Some(x)).              *)
(***************************************************************************)
EXTENDS Integers, Sequences, FiniteSets, TLC

\* ------------------------------------------------------------------ bounds
\* Largest number of --system-prompt files on a command line.
MaxFiles == 2
\* Largest number of lines the loop reads from standard input in one run.
MaxReads == 3
MaxReaderLen == 4
MaxCalls == 2

\* ------------------------------------------------------------ Option<T>
None == <<>>
Some(x) == <<x>>
IsSome(o) == o # <<>>
Unwrap(o) == o[1]

\* ------------------------------------------------------- string literals
FlagContinue == <<"-", "-", "c", "o", "n", "t", "i", "n", "u", "e">>
FlagP == <<"-", "p">>
FlagSystemPrompt == <<"-", "-", "s", "y", "s", "t", "e", "m", "-", "p", "r", "o", "m", "p", "t">>
FlagAppendSystemPrompt == <<"-", "-", "a", "p", "p", "e", "n", "d", "-", "s", "y", "s", "t", "e", "m", "-", "p", "r", "o", "m", "p", "t">>
FlagModel == <<"-", "-", "m", "o", "d", "e", "l">>
FlagAllowedTools == <<"-", "-", "a", "l", "l", "o", "w", "e", "d", "T", "o", "o", "l", "s">>
ToolWrite == <<"W", "r", "i", "t", "e">>
ToolEdit == <<"E", "d", "i", "t">>
KwExit == <<"e", "x", "i", "t">>
KwQuit == <<"q", "u", "i", "t">>
JoinSep == <<"\n", "\n">>

\* ------------------------------------------------------ std string helpers
UpperAlpha == <<"A", "B", "C", "D", "E", "F", "G", "H", "I", "J", "K", "L", "M", "N", "O", "P", "Q", "R", "S", "T", "U", "V", "W", "X", "Y", "Z">>
LowerAlpha == <<"a", "b", "c", "d", "e", "f", "g", "h", "i", "j", "k", "l", "m", "n", "o", "p", "q", "r", "s", "t", "u", "v", "w", "x", "y", "z">>

\* char::to_lowercase on the characters the model uses.
char_to_lowercase(c) ==
    IF \E i \in 1..Len(UpperAlpha) : UpperAlpha[i] = c
    THEN LowerAlpha[CHOOSE i \in 1..Len(UpperAlpha) : UpperAlpha[i] = c]
    ELSE c

\* str::to_lowercase
to_lowercase(s) == [i \in 1..Len(s) |-> char_to_lowercase(s[i])]

\* The characters str::trim removes (the White_Space ones the model uses).
WhiteSpace == {" ", "\t", "\n", "\r"}

RECURSIVE trim_start(_)
trim_start(s) ==
    IF s # <<>> /\ Head(s) \in WhiteSpace THEN trim_start(Tail(s)) ELSE s

RECURSIVE trim_end(_)
trim_end(s) ==
    IF s # <<>> /\ s[Len(s)] \in WhiteSpace
    THEN trim_end(SubSeq(s, 1, Len(s) - 1))
    ELSE s

\* trim as a bug would have it: only the line terminator is removed.
trim_newline_only(s) ==
    IF s # <<>> /\ s[Len(s)] = "\n" THEN SubSeq(s, 1, Len(s) - 1) ELSE s

\* str::trim
trim(s) == trim_end(trim_start(s))

\* join as a bug would have it: one newline between the files.
RECURSIVE join_single_newline(_, _)
join_single_newline(v, sep) ==
    IF v = <<>> THEN <<>>
    ELSE IF Len(v) = 1 THEN v[1]
    ELSE v[1] \o <<"\n">> \o join_single_newline(Tail(v), sep)

\* [String]::join(sep): the first element, then sep and the element for
\* each later one; the empty string for no elements.
RECURSIVE join(_, _)
join(v, sep) ==
    IF v = <<>> THEN <<>>
    ELSE IF Len(v) = 1 THEN v[1]
    ELSE v[1] \o sep \o join(Tail(v), sep)

\* Vec::contains
contains(v, x) == \E i \in 1..Len(v) : v[i] = x

\* ------------------------------------------------------ claude_executor.rs
\* build_args as bugs would have it.
\* the continuation flag pushed after the prompt
build_args_continue_late(cmd) ==
    <<FlagP, cmd.prompt, FlagContinue>>
        \o (IF IsSome(cmd.system_prompt)
            THEN <<FlagSystemPrompt, Unwrap(cmd.system_prompt)>> ELSE <<>>)
        \o (IF IsSome(cmd.append_prompt)
            THEN <<FlagAppendSystemPrompt, Unwrap(cmd.append_prompt)>> ELSE <<>>)
        \o (IF IsSome(cmd.model)
            THEN <<FlagModel, Unwrap(cmd.model)>> ELSE <<>>)
        \o <<FlagAllowedTools, ToolWrite, ToolEdit>>

\* the model pair pushed after the allowed tools
build_args_model_last(cmd) ==
    <<FlagContinue, FlagP, cmd.prompt>>
        \o (IF IsSome(cmd.system_prompt)
            THEN <<FlagSystemPrompt, Unwrap(cmd.system_prompt)>> ELSE <<>>)
        \o (IF IsSome(cmd.append_prompt)
            THEN <<FlagAppendSystemPrompt, Unwrap(cmd.append_prompt)>> ELSE <<>>)
        \o <<FlagAllowedTools, ToolWrite, ToolEdit>>
        \o (IF IsSome(cmd.model)
            THEN <<FlagModel, Unwrap(cmd.model)>> ELSE <<>>)

\* the append pair pushed before the system pair
build_args_append_first(cmd) ==
    <<FlagContinue, FlagP, cmd.prompt>>
        \o (IF IsSome(cmd.append_prompt)
            THEN <<FlagAppendSystemPrompt, Unwrap(cmd.append_prompt)>> ELSE <<>>)
        \o (IF IsSome(cmd.system_prompt)
            THEN <<FlagSystemPrompt, Unwrap(cmd.system_prompt)>> ELSE <<>>)
        \o (IF IsSome(cmd.model)
            THEN <<FlagModel, Unwrap(cmd.model)>> ELSE <<>>)
        \o <<FlagAllowedTools, ToolWrite, ToolEdit>>

\* the system pair always pushed, with an empty value for None
build_args_system_always(cmd) ==
    <<FlagContinue, FlagP, cmd.prompt>>
        \o <<FlagSystemPrompt,
             IF IsSome(cmd.system_prompt) THEN Unwrap(cmd.system_prompt) ELSE <<>> >>
        \o (IF IsSome(cmd.append_prompt)
            THEN <<FlagAppendSystemPrompt, Unwrap(cmd.append_prompt)>> ELSE <<>>)
        \o (IF IsSome(cmd.model)
            THEN <<FlagModel, Unwrap(cmd.model)>> ELSE <<>>)
        \o <<FlagAllowedTools, ToolWrite, ToolEdit>>

\* a present but empty field treated as absent
build_args_skip_empty(cmd) ==
    <<FlagContinue, FlagP, cmd.prompt>>
        \o (IF IsSome(cmd.system_prompt) /\ cmd.system_prompt # Some(<<>>)
            THEN <<FlagSystemPrompt, Unwrap(cmd.system_prompt)>> ELSE <<>>)
        \o (IF IsSome(cmd.append_prompt) /\ cmd.append_prompt # Some(<<>>)
            THEN <<FlagAppendSystemPrompt, Unwrap(cmd.append_prompt)>> ELSE <<>>)
        \o (IF IsSome(cmd.model) /\ cmd.model # Some(<<>>)
            THEN <<FlagModel, Unwrap(cmd.model)>> ELSE <<>>)
        \o <<FlagAllowedTools, ToolWrite, ToolEdit>>

\* ClaudeCommand::build_args
build_args(cmd) ==
    LET a0 == <<FlagContinue, FlagP, cmd.prompt>>
        a1 == IF IsSome(cmd.system_prompt)
              THEN a0 \o <<FlagSystemPrompt, Unwrap(cmd.system_prompt)>>
              ELSE a0
        a2 == IF IsSome(cmd.append_prompt)
              THEN a1 \o <<FlagAppendSystemPrompt, Unwrap(cmd.append_prompt)>>
              ELSE a1
        a3 == IF IsSome(cmd.model)
              THEN a2 \o <<FlagModel, Unwrap(cmd.model)>>
              ELSE a2
    IN  a3 \o <<FlagAllowedTools, ToolWrite, ToolEdit>>

\* --------------------------------------------------------------- dialog.rs
\* is_exit_command as bugs would have it: no lower-casing; a prefix match.
is_exit_command_case_sensitive(input) ==
    input = KwExit \/ input = KwQuit

is_exit_command_prefix(input) ==
    LET lower == to_lowercase(input)
    IN  /\ Len(lower) >= 4
        /\ SubSeq(lower, 1, 4) \in {KwExit, KwQuit}

\* is_exit_command as a bug would have it: the text is trimmed first.
is_exit_command_trimmed(input) ==
    LET lower == to_lowercase(trim(input))
    IN  lower = KwExit \/ lower = KwQuit

\* DialogLoop::is_exit_command
is_exit_command(input) ==
    LET lower == to_lowercase(input)
    IN  lower = KwExit \/ lower = KwQuit

\* The turn's command as a bug would have it: the model is left out.
turn_command_no_model(input, cfg) ==
    [prompt |-> input,
     system_prompt |-> cfg.system_prompt,
     append_prompt |-> cfg.append_prompt,
     model |-> None]

\* The ClaudeCommand that run builds for a turn.
turn_command(input, cfg) ==
    [prompt |-> input,
     system_prompt |-> cfg.system_prompt,
     append_prompt |-> cfg.append_prompt,
     model |-> cfg.model]

\* ----------------------------------------------------------------- main.rs
\* The DialogConfig as a bug would have it: an empty prompt text is kept.
dialog_config_keeps_empty(system_prompt, a) ==
    [system_prompt |-> IF a.system_prompt_files # <<>> \/ system_prompt # <<>>
                       THEN Some(system_prompt) ELSE None,
     append_prompt |-> IF IsSome(a.append_prompt_file) THEN Some(system_prompt) ELSE None,
     model |-> a.model]

\* The DialogConfig main builds from the loaded prompt text and the Args.
dialog_config(system_prompt, a) ==
    [system_prompt |-> IF system_prompt # <<>> THEN Some(system_prompt) ELSE None,
     append_prompt |-> IF IsSome(a.append_prompt_file) THEN Some(system_prompt) ELSE None,
     model |-> a.model]

\* ------------------------------------------------------------ environment
\* The files on disk: a path's contents, or Unreadable.
Unreadable == <<"<unreadable>">>
Paths == {"a.md", "b.md", "e.md", "x.md"}
Files ==
    [p \in Paths |->
        CASE p = "a.md" -> <<"A", "\n">>
          [] p = "b.md" -> <<"B">>
          [] p = "e.md" -> <<>>
          [] OTHER -> Unreadable]
Readable(p) == Files[p] # Unreadable

\* The values --model takes in the model.
ModelNames == {<<"m">>}

\* Sequences over S of length at most n.
SeqUpTo(S, n) == UNION {[1..k -> S] : k \in 0..n}

\* The raw lines standard input delivers; the empty one is end-of-file.
Lines ==
    { <<"e", "x", "i", "t", "\n">>,
      <<" ", "E", "x", "i", "t", " ", "\n">>,
      <<"Q", "U", "I", "T", "\r", "\n">>,
      <<"q", "u", "i", "t">>,
      <<"\n">>,
      <<" ", "\t", "\n">>,
      <<"h", "i", "\n">>,
      <<"e", "x", "i", "t", " ", "n", "o", "w", "\n">>,
      <<"-", "-", "s", "y", "s", "t", "e", "m", "-", "p", "r", "o", "m", "p", "t", "\n">>,
      <<>> }

\* The exit statuses of the external program.
ExitStatuses == {0, 1, 101}

NoError == [kind |-> "none", path |-> "", status |-> 0]
Error(k, p, s) == [kind |-> k, path |-> p, status |-> s]

\* ---------------------------------------------------------------- readers
\* The capacity of the buffer BufReader::new allocates.
DefaultBufSize == 8192

\* How a reader answers a read call: "cursor" (bytes in memory: as many as
\* the caller's buffer takes), "line" (a terminal or a pipe fed line by
\* line: no more than the next line), "failing" (the call returns Err).
ReaderKinds == {"cursor", "line", "failing"}

NoReader == [kind |-> "cursor", data |-> <<>>, pos |-> 0]

Min(a, b) == IF a < b THEN a ELSE b

\* The index of the first line feed in s, or 0.
NewlineAt(s) ==
    IF \E k \in 1..Len(s) : s[k] = "\n"
    THEN CHOOSE k \in 1..Len(s) : s[k] = "\n" /\ \A j \in 1..(k - 1) : s[j] # "\n"
    ELSE 0

\* Read::read on r at position pos with a buffer of cap bytes: the bytes
\* it delivers.
reader_read(r, pos, cap) ==
    LET rest == SubSeq(r.data, pos + 1, Len(r.data))
        avail == SubSeq(rest, 1, Min(cap, Len(rest)))
    IN  IF r.kind = "line" /\ NewlineAt(avail) # 0
        THEN SubSeq(avail, 1, NewlineAt(avail))
        ELSE avail

\* BufRead::read_line on a fresh BufReader over r: the buffer is filled from
\* the reader until a fill holds a line feed or is empty; the line ends at
\* the line feed, the reader has given up every byte of every fill.
RECURSIVE read_line(_, _, _)
read_line(r, pos, line) ==
    LET chunk == reader_read(r, pos, DefaultBufSize)
        nl == NewlineAt(chunk)
    IN  IF chunk = <<>> THEN [line |-> line, pos |-> pos]
        ELSE IF nl # 0
        THEN [line |-> line \o SubSeq(chunk, 1, nl), pos |-> pos + Len(chunk)]
        ELSE read_line(r, pos + Len(chunk), line \o chunk)

\* Result<Option<String>>
OkOf(v) == [ok |-> TRUE, value |-> v]
ErrRead == [ok |-> FALSE, value |-> None]

\* read_input as bugs would have it: only the line terminator is trimmed;
\* the reader gives up no more than the line.
read_input_newline_only(r) ==
    IF r.kind = "failing" THEN [ret |-> ErrRead, reader |-> r]
    ELSE LET rl == read_line(r, r.pos, <<>>)
             trimmed == trim_newline_only(rl.line)
         IN  [ret |-> OkOf(IF trimmed = <<>> THEN None ELSE Some(trimmed)),
              reader |-> [r EXCEPT !.pos = rl.pos]]

read_input_line_only(r) ==
    IF r.kind = "failing" THEN [ret |-> ErrRead, reader |-> r]
    ELSE LET rl == read_line(r, r.pos, <<>>)
             trimmed == trim(rl.line)
         IN  [ret |-> OkOf(IF trimmed = <<>> THEN None ELSE Some(trimmed)),
              reader |-> [r EXCEPT !.pos = r.pos + Len(rl.line)]]

\* DialogLoop::read_input on the reader r: the value returned and the reader
\* as the call leaves it.
read_input(r) ==
    IF r.kind = "failing" THEN [ret |-> ErrRead, reader |-> r]
    ELSE LET rl == read_line(r, r.pos, <<>>)
             trimmed == trim(rl.line)
         IN  [ret |-> OkOf(IF trimmed = <<>> THEN None ELSE Some(trimmed)),
              reader |-> [r EXCEPT !.pos = rl.pos]]

\* -------------------------------------------------------------------- state
VARIABLES
    pc,            \* where the program is
    args,          \* the command line: system_prompt_files, append_prompt_file, model
    promptConfig,  \* the SystemPromptConfig load_system_prompt was given
    prompts,       \* load_system_prompt's vector of contents read so far
    filesRead,     \* the paths read from disk, in order
    loaded,        \* Option: the string load_system_prompt returned
    config,        \* Option: the DialogConfig held by the DialogLoop
    input,         \* the raw line the last read returned
    nreads,        \* number of lines read from standard input
    command,       \* Option: the ClaudeCommand of the current turn
    built,         \* Option: the argument list build_args returned last
    invocations,   \* the argument lists of the external invocations, in order
    running,       \* number of external processes running
    exitStatus,    \* Option: the exit status of the last external process
    out,           \* what the program printed, in order
    err,           \* the error returned to the top level
    isExitArg,     \* Option: the text is_exit_command was last called on
    reader,        \* the reader read_input is called on: its bytes and position
    returns        \* the values the calls of a function under test returned, in order

vars == <<pc, args, promptConfig, prompts, filesRead, loaded, config, input,
          nreads, command, built, invocations, running, exitStatus, out, err,
          isExitArg, reader, returns>>

loadVars == <<promptConfig, prompts, filesRead, loaded>>
loopVars == <<config, input, nreads, command, built, invocations, running, exitStatus, out,
              isExitArg, reader, returns>>
callVars == <<reader, returns>>

\* The exit code as a bug would have it: main drops the result of run.
process_exit_code_run_ignored ==
    IF pc \in {"help_exit", "done"} THEN Some(0)
    ELSE IF pc = "failed" /\ err.kind \in {"usage", "usage_conflict"} THEN Some(2)
    ELSE IF pc = "failed" THEN Some(0)
    ELSE IF pc = "load_failed" THEN Some(1)
    ELSE None

\* The exit code of the process, once it has ended: the parser exits 0
\* after help or version and 2 after a usage error; main returning Err
\* exits 1, main returning Ok exits 0.
process_exit_code ==
    IF pc \in {"help_exit", "done"} THEN Some(0)
    ELSE IF pc = "failed" /\ err.kind \in {"usage", "usage_conflict"} THEN Some(2)
    ELSE IF pc \in {"failed", "load_failed"} THEN Some(1)
    ELSE None

NoConfig == [system_prompt_files |-> <<>>, append_prompt_file |-> None]
NoArgs ==
    [system_prompt_files |-> <<>>, append_prompt_file |-> None, model |-> None,
     mode |-> "run"]

\* What else the command line holds: nothing ("run"), --help, --version, or
\* a flag the parser does not know.
Modes == {"run", "help", "version", "unknown_flag"}

ArgsSet ==
    [system_prompt_files : SeqUpTo(Paths, MaxFiles),
     append_prompt_file : {None} \cup {Some(p) : p \in Paths},
     model : {None} \cup {Some(m) : m \in ModelNames},
     mode : Modes]

Blank ==
    /\ prompts = <<>>
    /\ filesRead = <<>>
    /\ loaded = None
    /\ config = None
    /\ input = <<>>
    /\ nreads = 0
    /\ command = None
    /\ built = None
    /\ invocations = <<>>
    /\ running = 0
    /\ exitStatus = None
    /\ out = <<>>
    /\ err = NoError
    /\ isExitArg = None
    /\ reader = NoReader
    /\ returns = <<>>

\* ------------------------------------------------------------------- main
Init ==
    /\ pc = "parse"
    /\ args \in ArgsSet
    /\ promptConfig = NoConfig
    /\ Blank

\* Parsing as a bug would have it: the conflict between the two prompt-file
\* flags is not declared.
MainParseArgsNoConflict ==
    /\ pc = "parse"
    /\ IF args.mode \in {"help", "version"}
       THEN /\ pc' = "help_exit"
            /\ UNCHANGED <<err, promptConfig>>
       ELSE IF args.mode = "unknown_flag"
       THEN /\ pc' = "failed"
            /\ err' = Error("usage", "", 2)
            /\ UNCHANGED promptConfig
       ELSE /\ pc' = "load"
            /\ promptConfig' = [system_prompt_files |-> args.system_prompt_files,
                                append_prompt_file |-> args.append_prompt_file]
            /\ UNCHANGED err
    /\ UNCHANGED <<args, prompts, filesRead, loaded>>
    /\ UNCHANGED loopVars

\* main: Args::parse and the SystemPromptConfig built from it.  The parser
\* prints help or the version and exits at once when asked to; it rejects an
\* unknown flag, and --append-system-prompt together with --system-prompt.
MainParseArgs ==
    /\ pc = "parse"
    /\ IF args.mode \in {"help", "version"}
       THEN /\ pc' = "help_exit"
            /\ UNCHANGED <<err, promptConfig>>
       ELSE IF \/ args.mode = "unknown_flag"
               \/ args.system_prompt_files # <<>> /\ IsSome(args.append_prompt_file)
       THEN /\ pc' = "failed"
            /\ err' = Error(IF args.mode = "unknown_flag" THEN "usage" ELSE "usage_conflict",
                            "", 2)
            /\ UNCHANGED promptConfig
       ELSE /\ pc' = "load"
            /\ promptConfig' = [system_prompt_files |-> args.system_prompt_files,
                                append_prompt_file |-> args.append_prompt_file]
            /\ UNCHANGED err
    /\ UNCHANGED <<args, prompts, filesRead, loaded>>
    /\ UNCHANGED loopVars

\* --------------------------------------------------------------- prompt.rs
\* The for loop as a bug would have it: an unreadable file is skipped.
LoadReadSystemFileSkip ==
    /\ pc = "load"
    /\ promptConfig.system_prompt_files # <<>>
    /\ Len(prompts) < Len(promptConfig.system_prompt_files)
    /\ LET file_path == promptConfig.system_prompt_files[Len(prompts) + 1]
       IN  /\ filesRead' = Append(filesRead, file_path)
           /\ prompts' = Append(prompts, IF Readable(file_path) THEN Files[file_path] ELSE <<>>)
    /\ UNCHANGED <<pc, err, args, promptConfig, loaded>>
    /\ UNCHANGED loopVars

\* load_system_prompt, replacement branch: one turn of the for loop.
LoadReadSystemFile ==
    /\ pc = "load"
    /\ promptConfig.system_prompt_files # <<>>
    /\ Len(prompts) < Len(promptConfig.system_prompt_files)
    /\ LET file_path == promptConfig.system_prompt_files[Len(prompts) + 1]
       IN  /\ filesRead' = Append(filesRead, file_path)
           /\ IF Readable(file_path)
              THEN /\ prompts' = Append(prompts, Files[file_path])
                   /\ UNCHANGED <<pc, err>>
              ELSE /\ pc' = "load_failed"
                   /\ err' = Error("read_system_prompt_file", file_path, 1)
                   /\ UNCHANGED prompts
    /\ UNCHANGED <<args, promptConfig, loaded>>
    /\ UNCHANGED loopVars

\* load_system_prompt, replacement branch: the join after the for loop.
LoadJoin ==
    /\ pc = "load"
    /\ promptConfig.system_prompt_files # <<>>
    /\ Len(prompts) = Len(promptConfig.system_prompt_files)
    /\ loaded' = Some(join(prompts, JoinSep))
    /\ pc' = "loaded"
    /\ UNCHANGED <<args, promptConfig, prompts, filesRead, err>>
    /\ UNCHANGED loopVars

\* The append branch as a bug would have it: taken whenever an append file
\* is given, replacement files or not.
LoadReadAppendAlways ==
    /\ pc = "load"
    /\ IsSome(promptConfig.append_prompt_file)
    /\ LET append_file == Unwrap(promptConfig.append_prompt_file)
       IN  /\ filesRead' = Append(filesRead, append_file)
           /\ IF Readable(append_file)
              THEN /\ loaded' = Some(Files[append_file])
                   /\ pc' = "loaded"
                   /\ UNCHANGED err
              ELSE /\ pc' = "load_failed"
                   /\ err' = Error("read_append_prompt_file", append_file, 1)
                   /\ UNCHANGED loaded
    /\ UNCHANGED <<args, promptConfig, prompts>>
    /\ UNCHANGED loopVars

\* The append branch as a bug would have it: the contents lose their
\* trailing whitespace.
LoadReadAppendTrimmed ==
    /\ pc = "load"
    /\ promptConfig.system_prompt_files = <<>>
    /\ IsSome(promptConfig.append_prompt_file)
    /\ LET append_file == Unwrap(promptConfig.append_prompt_file)
       IN  /\ filesRead' = Append(filesRead, append_file)
           /\ IF Readable(append_file)
              THEN /\ loaded' = Some(trim_end(Files[append_file]))
                   /\ pc' = "loaded"
                   /\ UNCHANGED err
              ELSE /\ pc' = "load_failed"
                   /\ err' = Error("read_append_prompt_file", append_file, 1)
                   /\ UNCHANGED loaded
    /\ UNCHANGED <<args, promptConfig, prompts>>
    /\ UNCHANGED loopVars

\* load_system_prompt, append branch.
LoadReadAppend ==
    /\ pc = "load"
    /\ promptConfig.system_prompt_files = <<>>
    /\ IsSome(promptConfig.append_prompt_file)
    /\ LET append_file == Unwrap(promptConfig.append_prompt_file)
       IN  /\ filesRead' = Append(filesRead, append_file)
           /\ IF Readable(append_file)
              THEN /\ loaded' = Some(Files[append_file])
                   /\ pc' = "loaded"
                   /\ UNCHANGED err
              ELSE /\ pc' = "load_failed"
                   /\ err' = Error("read_append_prompt_file", append_file, 1)
                   /\ UNCHANGED loaded
    /\ UNCHANGED <<args, promptConfig, prompts>>
    /\ UNCHANGED loopVars

\* load_system_prompt, no custom prompt.
LoadNoPrompt ==
    /\ pc = "load"
    /\ promptConfig.system_prompt_files = <<>>
    /\ ~IsSome(promptConfig.append_prompt_file)
    /\ loaded' = Some(<<>>)
    /\ pc' = "loaded"
    /\ UNCHANGED <<args, promptConfig, prompts, filesRead, err>>
    /\ UNCHANGED loopVars

\* The start of the dialog as a bug would have it: a failed load counts as
\* an empty prompt.
MainStartDialogIgnoreError ==
    /\ pc \in {"loaded", "load_failed"}
    /\ out' = Append(out, "welcome")
    /\ config' = Some(dialog_config(IF IsSome(loaded) THEN Unwrap(loaded) ELSE <<>>, args))
    /\ pc' = "prompt"
    /\ UNCHANGED <<args, err, input, nreads, command, built, invocations, running, exitStatus, isExitArg>>
    /\ UNCHANGED loadVars
    /\ UNCHANGED callVars

\* main: the welcome banner, the DialogConfig and DialogLoop::new.
MainStartDialog ==
    /\ pc = "loaded"
    /\ out' = Append(out, "welcome")
    /\ config' = Some(dialog_config(Unwrap(loaded), args))
    /\ pc' = "prompt"
    /\ UNCHANGED <<args, err, input, nreads, command, built, invocations, running, exitStatus, isExitArg>>
    /\ UNCHANGED loadVars
    /\ UNCHANGED callVars

\* --------------------------------------------------------------- dialog.rs
\* run: print the user prompt and flush standard output.
RunPrompt ==
    /\ pc = "prompt"
    /\ out' = Append(out, "user_prompt")
    /\ \E flushed \in BOOLEAN :
          IF flushed
          THEN pc' = "read" /\ UNCHANGED err
          ELSE pc' = "failed" /\ err' = Error("io_flush", "", 1)
    /\ UNCHANGED <<args, config, input, nreads, command, built, invocations, running, exitStatus, isExitArg>>
    /\ UNCHANGED loadVars
    /\ UNCHANGED callVars

\* Standard input is at end-of-file: the last read returned zero bytes (a
\* line that was delivered holds at least its terminator or one character).
\* At end-of-file read_line returns Ok(0) again and again.
AtEof == nreads >= 1 /\ input = <<>> /\ err.kind # "io_read"

\* run: read_line fails (an I/O error, or bytes that are not UTF-8).
RunReadError ==
    /\ pc = "read"
    /\ nreads < MaxReads
    /\ ~AtEof
    /\ nreads' = nreads + 1
    /\ pc' = "failed"
    /\ err' = Error("io_read", "", 1)
    /\ UNCHANGED <<args, config, input, command, built, invocations, running, exitStatus, out, isExitArg>>
    /\ UNCHANGED loadVars
    /\ UNCHANGED callVars

\* The read as a fix would have it: zero bytes end the loop.
RunReadLineEofBreaks ==
    /\ pc = "read"
    /\ nreads < MaxReads
    /\ \E raw \in Lines :
          /\ AtEof => raw = <<>>
          /\ input' = raw
          /\ nreads' = nreads + 1
          /\ LET line == trim(raw)
             IN  IF raw = <<>>
                 THEN /\ pc' = "done"
                      /\ UNCHANGED <<out, command, isExitArg>>
                 ELSE IF line = <<>>
                 THEN /\ pc' = "prompt"
                      /\ UNCHANGED <<out, command, isExitArg>>
                 ELSE IF is_exit_command(line)
                 THEN /\ isExitArg' = Some(line)
                      /\ out' = Append(out, "farewell")
                      /\ pc' = "done"
                      /\ UNCHANGED command
                 ELSE /\ isExitArg' = Some(line)
                      /\ out' = Append(out, "claude_prompt")
                      /\ command' = Some(turn_command(line, Unwrap(config)))
                      /\ pc' = "dispatch"
    /\ UNCHANGED <<args, config, built, invocations, running, exitStatus, err>>
    /\ UNCHANGED loadVars
    /\ UNCHANGED callVars

\* The read as a bug would have it: the assistant marker is printed for
\* every non-empty line, before the exit keyword is looked for.
RunReadLineMarkerFirst ==
    /\ pc = "read"
    /\ nreads < MaxReads
    /\ \E raw \in Lines :
          /\ AtEof => raw = <<>>
          /\ input' = raw
          /\ nreads' = nreads + 1
          /\ LET line == trim(raw)
             IN  IF line = <<>>
                 THEN /\ pc' = "prompt"
                      /\ UNCHANGED <<out, command, isExitArg>>
                 ELSE IF is_exit_command(line)
                 THEN /\ isExitArg' = Some(line)
                      /\ out' = out \o <<"claude_prompt", "farewell">>
                      /\ pc' = "done"
                      /\ UNCHANGED command
                 ELSE /\ isExitArg' = Some(line)
                      /\ out' = Append(out, "claude_prompt")
                      /\ command' = Some(turn_command(line, Unwrap(config)))
                      /\ pc' = "dispatch"
    /\ UNCHANGED <<args, config, built, invocations, running, exitStatus, err>>
    /\ UNCHANGED loadVars
    /\ UNCHANGED callVars

\* run: read a line, trim it, and decide: empty, exit keyword, or a turn.
RunReadLine ==
    /\ pc = "read"
    /\ nreads < MaxReads
    /\ \E raw \in Lines :
          /\ AtEof => raw = <<>>
          /\ input' = raw
          /\ nreads' = nreads + 1
          /\ LET line == trim(raw)
             IN  IF line = <<>>
                 THEN /\ pc' = "prompt"
                      /\ UNCHANGED <<out, command, isExitArg>>
                 ELSE IF is_exit_command(line)
                 THEN /\ isExitArg' = Some(line)
                      /\ out' = Append(out, "farewell")
                      /\ pc' = "done"
                      /\ UNCHANGED command
                 ELSE /\ isExitArg' = Some(line)
                      /\ out' = Append(out, "claude_prompt")
                      /\ command' = Some(turn_command(line, Unwrap(config)))
                      /\ pc' = "dispatch"
    /\ UNCHANGED <<args, config, built, invocations, running, exitStatus, err>>
    /\ UNCHANGED loadVars
    /\ UNCHANGED callVars

\* ------------------------------------------------------ claude_executor.rs
\* The spawn as a bug would have it: the program is started and not waited
\* for.
ExecSpawnNoWait ==
    /\ pc = "dispatch"
    /\ built' = Some(build_args(Unwrap(command)))
    /\ invocations' = Append(invocations, build_args(Unwrap(command)))
    /\ \E launched \in BOOLEAN :
          IF launched
          THEN /\ running' = running + 1
               /\ pc' = "prompt"
               /\ UNCHANGED err
          ELSE /\ pc' = "failed"
               /\ err' = Error("launch", "", 1)
               /\ UNCHANGED running
    /\ UNCHANGED <<args, config, input, nreads, command, exitStatus, out, isExitArg>>
    /\ UNCHANGED loadVars
    /\ UNCHANGED callVars

\* execute_claude: build the arguments and start the external program.
ExecSpawn ==
    /\ pc = "dispatch"
    /\ built' = Some(build_args(Unwrap(command)))
    /\ invocations' = Append(invocations, build_args(Unwrap(command)))
    /\ \E launched \in BOOLEAN :
          IF launched
          THEN /\ running' = running + 1
               /\ pc' = "running"
               /\ UNCHANGED err
          ELSE /\ pc' = "failed"
               /\ err' = Error("launch", "", 1)
               /\ UNCHANGED running
    /\ UNCHANGED <<args, config, input, nreads, command, exitStatus, out, isExitArg>>
    /\ UNCHANGED loadVars
    /\ UNCHANGED callVars

\* The wait as bugs would have it: the exit status is not looked at; a
\* failed invocation is tried again.
ExecWaitIgnoreStatus ==
    /\ pc = "running"
    /\ running' = running - 1
    /\ \E status \in ExitStatuses :
          /\ exitStatus' = Some(status)
          /\ out' = Append(out, "blank")
          /\ pc' = "prompt"
          /\ UNCHANGED err
    /\ UNCHANGED <<args, config, input, nreads, command, built, invocations, isExitArg>>
    /\ UNCHANGED loadVars
    /\ UNCHANGED callVars

ExecWaitRetry ==
    /\ pc = "running"
    /\ running' = running - 1
    /\ \E status \in ExitStatuses :
          /\ exitStatus' = Some(status)
          /\ IF status = 0
             THEN /\ out' = Append(out, "blank")
                  /\ pc' = "prompt"
             ELSE /\ pc' = "dispatch"
                  /\ UNCHANGED out
          /\ UNCHANGED err
    /\ UNCHANGED <<args, config, input, nreads, command, built, invocations, isExitArg>>
    /\ UNCHANGED loadVars
    /\ UNCHANGED callVars

\* execute_claude: the external program exits; run prints the blank line
\* after a success.
ExecWait ==
    /\ pc = "running"
    /\ running' = running - 1
    /\ \E status \in ExitStatuses :
          /\ exitStatus' = Some(status)
          /\ IF status = 0
             THEN /\ out' = Append(out, "blank")
                  /\ pc' = "prompt"
                  /\ UNCHANGED err
             ELSE /\ pc' = "failed"
                  /\ err' = Error("exit_status", "", status)
                  /\ UNCHANGED out
    /\ UNCHANGED <<args, config, input, nreads, command, built, invocations, isExitArg>>
    /\ UNCHANGED loadVars
    /\ UNCHANGED callVars

Next ==
    \/ MainParseArgs
    \/ LoadReadSystemFile
    \/ LoadJoin
    \/ LoadReadAppend
    \/ LoadNoPrompt
    \/ MainStartDialog
    \/ RunPrompt
    \/ RunReadError
    \/ RunReadLine
    \/ ExecSpawn
    \/ ExecWait

Spec == Init /\ [][Next]_vars

\* ------------------------------------------- build_args as a pure function
\* The texts a ClaudeCommand's fields take; some look like flags.
PromptTexts == { <<"h", "i">>, <<>>, FlagSystemPrompt, FlagAllowedTools }
OptionTexts == { None, Some(<<>>), Some(<<"S">>), Some(FlagSystemPrompt) }

Commands ==
    [prompt : PromptTexts,
     system_prompt : OptionTexts,
     append_prompt : OptionTexts,
     model : OptionTexts]

InitBuildArgs ==
    /\ pc = "build"
    /\ args = NoArgs
    /\ promptConfig = NoConfig
    /\ prompts = <<>>
    /\ filesRead = <<>>
    /\ loaded = None
    /\ config = None
    /\ input = <<>>
    /\ nreads = 0
    /\ command \in {Some(c) : c \in Commands}
    /\ built = None
    /\ invocations = <<>>
    /\ running = 0
    /\ exitStatus = None
    /\ out = <<>>
    /\ err = NoError
    /\ isExitArg = None
    /\ reader = NoReader
    /\ returns = <<>>

\* A call of ClaudeCommand::build_args.
BuildArgsCall ==
    /\ pc = "build"
    /\ built' = Some(build_args(Unwrap(command)))
    /\ pc' = "built"
    /\ UNCHANGED <<args, config, input, nreads, command, invocations, running, exitStatus, out, err, isExitArg>>
    /\ UNCHANGED loadVars
    /\ UNCHANGED callVars

NextBuildArgs == BuildArgsCall

SpecBuildArgs == InitBuildArgs /\ [][NextBuildArgs]_vars

\* ---------------------------------- load_system_prompt as a pure function
PromptConfigs ==
    [system_prompt_files : SeqUpTo(Paths, MaxFiles),
     append_prompt_file : {None} \cup {Some(p) : p \in Paths}]

InitLoad ==
    /\ pc = "load"
    /\ args = NoArgs
    /\ promptConfig \in PromptConfigs
    /\ Blank

NextLoad ==
    \/ LoadReadSystemFile
    \/ LoadJoin
    \/ LoadReadAppend
    \/ LoadNoPrompt

SpecLoad == InitLoad /\ [][NextLoad]_vars

\* ------------------------------------ is_exit_command as a pure function
\* kw with the letters at the positions in up in upper case.
Casing(kw, up) ==
    [i \in 1..Len(kw) |->
        IF i \in up
        THEN UpperAlpha[CHOOSE k \in 1..Len(LowerAlpha) : LowerAlpha[k] = kw[i]]
        ELSE kw[i]]

\* The texts is_exit_command is called on by its callers outside run (the
\* tests): the keywords in every casing, keywords with whitespace around
\* them, the empty text, and longer or shorter texts.
ExitInputs ==
    { Casing(kw, up) : kw \in {KwExit, KwQuit}, up \in SUBSET (1..4) }
    \cup { <<>>,
           <<"e", "x", "i", "t", " ">>,
           <<" ", "q", "u", "i", "t">>,
           <<"e", "x", "i", "t", "\n">>,
           <<"\t", "E", "X", "I", "T">>,
           <<"h", "e", "l", "l", "o">>,
           <<"e", "x", "i", "t", " ", "n", "o", "w">>,
           <<"e", "x", "i", "t", "q", "u", "i", "t">>,
           <<"q", "u", "i", "t", "s">>,
           <<"e", "x", "i">>,
           <<"e", "x", " ", "i", "t">> }

\* The program has not started; is_exit_command is about to be called.
InitIsExit ==
    /\ pc = "is_exit"
    /\ args = NoArgs
    /\ promptConfig = NoConfig
    /\ prompts = <<>>
    /\ filesRead = <<>>
    /\ loaded = None
    /\ config = None
    /\ input = <<>>
    /\ nreads = 0
    /\ command = None
    /\ built = None
    /\ invocations = <<>>
    /\ running = 0
    /\ exitStatus = None
    /\ out = <<>>
    /\ err = NoError
    /\ isExitArg \in {Some(t) : t \in ExitInputs}
    /\ reader = NoReader
    /\ returns = <<>>

\* A call of DialogLoop::is_exit_command.
IsExitCall ==
    /\ pc = "is_exit"
    /\ returns' = Append(returns, is_exit_command(Unwrap(isExitArg)))
    /\ pc' = "is_exit_ret"
    /\ UNCHANGED <<args, config, input, nreads, command, built, invocations, running,
                   exitStatus, out, err, isExitArg, reader>>
    /\ UNCHANGED loadVars

\* is_exit_command called directly, or by run inside the program.
NextIsExit ==
    \/ IsExitCall
    \/ Next

SpecIsExit == (InitIsExit \/ Init) /\ [][NextIsExit]_vars

\* ----------------------------------------- read_input as a pure function
\* What a reader holds: every text of a few characters, line feeds and
\* blanks among them, and some longer ones.
ReaderTexts ==
    SeqUpTo({"a", " ", "\n"}, MaxReaderLen)
    \cup { <<"e", "x", "i", "t", "\n">>,
           <<"e", "x", "i", "t", "\n", "h", "i", "\n">>,
           <<" ", "h", "i", " ", "\r", "\n", "y", "o", "\n">>,
           <<"a", " ", "b", "\n", "\n", "c">> }

Readers == [kind : ReaderKinds, data : ReaderTexts, pos : {0}]

\* The program has not started; read_input is about to be called on a reader.
InitReadInput ==
    /\ pc = "read_input"
    /\ args = NoArgs
    /\ promptConfig = NoConfig
    /\ prompts = <<>>
    /\ filesRead = <<>>
    /\ loaded = None
    /\ config = None
    /\ input = <<>>
    /\ nreads = 0
    /\ command = None
    /\ built = None
    /\ invocations = <<>>
    /\ running = 0
    /\ exitStatus = None
    /\ out = <<>>
    /\ err = NoError
    /\ isExitArg = None
    /\ reader \in Readers
    /\ returns = <<>>

\* A call of DialogLoop::read_input on the reader.
ReadInputCall ==
    /\ pc = "read_input"
    /\ Len(returns) < MaxCalls
    /\ LET r == read_input(reader)
       IN  /\ returns' = Append(returns, r.ret)
           /\ reader' = r.reader
    /\ UNCHANGED <<pc, args, config, input, nreads, command, built, invocations, running,
                   exitStatus, out, err, isExitArg>>
    /\ UNCHANGED loadVars

NextReadInput == ReadInputCall

SpecReadInput == InitReadInput /\ [][NextReadInput]_vars

\* ===================================================================
\* Properties
\* ===================================================================

\* s equals the lower-case keyword kw in some letter-casing.
SameIgnoringCase(s, kw) ==
    /\ Len(s) = Len(kw)
    /\ \A i \in 1..Len(kw) :
          \/ s[i] = kw[i]
          \/ \E k \in 1..Len(LowerAlpha) : LowerAlpha[k] = kw[i] /\ UpperAlpha[k] = s[i]

\* raw is whitespace, then "exit" or "quit" in some casing, then whitespace.
ExitLine(raw) ==
    \E i \in 0..Len(raw) : \E j \in i..Len(raw) :
        /\ \A k \in 1..i : raw[k] \in WhiteSpace
        /\ \A k \in (j + 1)..Len(raw) : raw[k] \in WhiteSpace
        /\ \/ SameIgnoringCase(SubSeq(raw, i + 1, j), KwExit)
           \/ SameIgnoringCase(SubSeq(raw, i + 1, j), KwQuit)

\* raw has nothing but whitespace.
BlankLine(raw) == \A k \in 1..Len(raw) : raw[k] \in WhiteSpace

\* This step is a read of standard input that delivered a line.
LineRead == pc = "read" /\ nreads' = nreads + 1 /\ err'.kind # "io_read"

\* C1: a line that trims to "exit" or "quit" in any letter-casing makes the
\* loop print the farewell and end normally; no turn is dispatched for it, no
\* external invocation is made, and nothing is read or invoked afterwards.
C1_ExitKeywordTerminates ==
    [][ /\ (LineRead /\ ExitLine(input')) =>
              /\ pc' = "done"
              /\ out' = Append(out, "farewell")
              /\ invocations' = invocations
              /\ running' = running
              /\ command' = command
              /\ err' = NoError
        /\ pc = "done" =>
              /\ pc' = "done"
              /\ nreads' = nreads
              /\ invocations' = invocations ]_vars

C1_Witness ==
    /\ pc = "done"
    /\ input = <<" ", "E", "x", "i", "t", " ", "\n">>
    /\ out[Len(out)] = "farewell"
    /\ nreads >= 2

\* C2: started with only an append-prompt file, the configuration never has
\* both the system prompt and the append prompt, and every external
\* invocation carries the append pair with the file's contents right after
\* the prompt, with no system-prompt pair.
C2_AppendOnlyNeverBoth ==
    (args.system_prompt_files = <<>> /\ IsSome(args.append_prompt_file)) =>
        /\ IsSome(config) =>
              ~(IsSome(Unwrap(config).system_prompt) /\ IsSome(Unwrap(config).append_prompt))
        /\ \A i \in 1..Len(invocations) :
              /\ invocations[i][4] = FlagAppendSystemPrompt
              /\ invocations[i][5] = Files[Unwrap(args.append_prompt_file)]

C4_OnlyDispatchFails ==
    [][ /\ (pc' = "done" /\ pc # "done") => (LineRead /\ ExitLine(input'))
        /\ (IsSome(config) /\ pc' = "failed" /\ pc # "failed") =>
              /\ pc \in {"dispatch", "running"}
              /\ err'.kind \in {"launch", "exit_status"} ]_vars

\* C4 amended: the loop ends normally only on an exit keyword read in
\* AwaitingInput; it ends with an error out of a dispatch (launch failure,
\* non-success exit status), out of the flush of the user-prompt marker, or
\* out of the read of the input line, and out of nothing else.
C4_LoopEndings ==
    [][ /\ (pc' = "done" /\ pc # "done") => (LineRead /\ ExitLine(input'))
        /\ (IsSome(config) /\ pc' = "failed" /\ pc # "failed") =>
              \/ pc = "dispatch" /\ err'.kind = "launch"
              \/ pc = "running" /\ err'.kind = "exit_status" /\ err'.status # 0
              \/ pc = "prompt" /\ err'.kind = "io_flush"
              \/ pc = "read" /\ err'.kind = "io_read" ]_vars

C4_Witness ==
    /\ pc = "failed"
    /\ err.kind = "io_read"
    /\ Len(invocations) >= 1

\* C5: the first three arguments are "--continue", "-p" and the prompt text
\* unchanged, whatever the optional fields and whatever the prompt looks like.
C5_ArgsBegin ==
    pc = "built" =>
        LET a == Unwrap(built)
        IN  /\ Len(a) >= 3
            /\ a[1] = <<"-", "-", "c", "o", "n", "t", "i", "n", "u", "e">>
            /\ a[2] = <<"-", "p">>
            /\ a[3] = Unwrap(command).prompt

C5_Witness ==
    /\ pc = "built"
    /\ Unwrap(command).prompt = FlagSystemPrompt
    /\ IsSome(Unwrap(command).system_prompt)
    /\ IsSome(Unwrap(command).append_prompt)
    /\ IsSome(Unwrap(command).model)

\* C6: the last three arguments are "--allowedTools", "Write" and "Edit".
C6_ArgsEnd ==
    pc = "built" =>
        LET a == Unwrap(built)
            n == Len(a)
        IN  /\ n >= 3
            /\ a[n - 2] = <<"-", "-", "a", "l", "l", "o", "w", "e", "d", "T", "o", "o", "l", "s">>
            /\ a[n - 1] = <<"W", "r", "i", "t", "e">>
            /\ a[n] = <<"E", "d", "i", "t">>

C6_Witness ==
    /\ pc = "built"
    /\ Unwrap(command).model = Some(FlagSystemPrompt)
    /\ Unwrap(command).append_prompt = Some(<<>>)
    /\ Len(Unwrap(built)) = 10

\* 1 for a present optional field, 0 for an absent one.
Present(o) == IF IsSome(o) THEN 1 ELSE 0

\* C7: the argument list is "--continue", "-p", prompt, then the pairs of the
\* present optional fields in the order system, append, model, then
\* "--allowedTools", "Write", "Edit", and nothing else: 6 + 2 * present.
C7_ArgsExact ==
    pc = "built" =>
        LET a == Unwrap(built)
            c == Unwrap(command)
            sAt == 3
            aAt == sAt + 2 * Present(c.system_prompt)
            mAt == aAt + 2 * Present(c.append_prompt)
            tAt == mAt + 2 * Present(c.model)
        IN  /\ Len(a) = 6 + 2 * (Present(c.system_prompt) + Present(c.append_prompt)
                                   + Present(c.model))
            /\ Len(a) = tAt + 3
            /\ a[1] = FlagContinue /\ a[2] = FlagP /\ a[3] = c.prompt
            /\ IsSome(c.system_prompt) =>
                  a[sAt + 1] = FlagSystemPrompt /\ a[sAt + 2] = Unwrap(c.system_prompt)
            /\ IsSome(c.append_prompt) =>
                  a[aAt + 1] = FlagAppendSystemPrompt /\ a[aAt + 2] = Unwrap(c.append_prompt)
            /\ IsSome(c.model) =>
                  a[mAt + 1] = FlagModel /\ a[mAt + 2] = Unwrap(c.model)
            /\ a[tAt + 1] = FlagAllowedTools /\ a[tAt + 2] = ToolWrite /\ a[tAt + 3] = ToolEdit

C7_Witness ==
    /\ pc = "built"
    /\ Unwrap(command).system_prompt = Some(<<"S">>)
    /\ Unwrap(command).append_prompt = Some(<<>>)
    /\ Unwrap(command).model = Some(<<"S">>)
    /\ Len(Unwrap(built)) = 12

\* C8 as stated: with the system prompt absent no argument equals
\* "--system-prompt", whatever the prompt, the append prompt and the model.
C8_NoSystemFlagAtAll ==
    (pc = "built" /\ ~IsSome(Unwrap(command).system_prompt)) =>
        ~contains(Unwrap(built), FlagSystemPrompt)

\* C8 amended: with the system prompt absent no system-prompt pair is
\* emitted; an argument equal to "--system-prompt" is the prompt text, the
\* append prompt's value or the model's value, passed on unchanged.
C8_NoSystemPair ==
    (pc = "built" /\ ~IsSome(Unwrap(command).system_prompt)) =>
        LET a == Unwrap(built)
            c == Unwrap(command)
            mAt == 3 + 2 * Present(c.append_prompt)
        IN  /\ Len(a) = 6 + 2 * (Present(c.append_prompt) + Present(c.model))
            /\ \A i \in 1..Len(a) :
                  a[i] = FlagSystemPrompt =>
                      \/ i = 3 /\ c.prompt = FlagSystemPrompt
                      \/ i = 5 /\ c.append_prompt = Some(FlagSystemPrompt)
                      \/ i = mAt + 2 /\ c.model = Some(FlagSystemPrompt)

C8_Witness ==
    /\ pc = "built"
    /\ ~IsSome(Unwrap(command).system_prompt)
    /\ Unwrap(command).prompt = FlagSystemPrompt
    /\ Unwrap(command).model = Some(FlagSystemPrompt)
    /\ contains(Unwrap(built), FlagSystemPrompt)

\* The lengths of the contents of the files fs, summed.
RECURSIVE TotalLen(_)
TotalLen(fs) == IF fs = <<>> THEN 0 ELSE Len(Files[Head(fs)]) + TotalLen(Tail(fs))

\* Where the contents of the i-th file start in the joined text, less one.
OffsetOf(fs, i) == TotalLen(SubSeq(fs, 1, i - 1)) + 2 * (i - 1)

\* r is the raw contents of the files fs in order, with exactly two newlines
\* between consecutive files and nothing before, after or in between.
IsJoined(r, fs) ==
    /\ Len(r) = TotalLen(fs) + 2 * (Len(fs) - 1)
    /\ \A i \in 1..Len(fs) :
          LET at == OffsetOf(fs, i)
              n == Len(Files[fs[i]])
          IN  /\ SubSeq(r, at + 1, at + n) = Files[fs[i]]
              /\ i < Len(fs) => (r[at + n + 1] = "\n" /\ r[at + n + 2] = "\n")

AllReadable(fs) == \A i \in 1..Len(fs) : Readable(fs[i])

\* C9: for n >= 1 readable replacement files load_system_prompt returns, and
\* returns the raw contents in the given order joined by exactly two
\* newlines: three newlines in a row after a file that ends in one, the
\* empty string for a single empty file.
C9_JoinedRaw ==
    LET fs == promptConfig.system_prompt_files
    IN  (fs # <<>> /\ AllReadable(fs)) =>
            /\ pc # "load_failed"
            /\ pc = "loaded" =>
                  /\ IsJoined(Unwrap(loaded), fs)
                  /\ fs = <<"a.md", "b.md">> =>
                        Unwrap(loaded) = <<"A", "\n", "\n", "\n", "B">>
                  /\ fs = <<"e.md">> => Unwrap(loaded) = <<>>

C9_Witness ==
    /\ pc = "loaded"
    /\ promptConfig.system_prompt_files = <<"a.md", "b.md">>
    /\ Unwrap(loaded) = <<"A", "\n", "\n", "\n", "B">>

\* C10: with at least one replacement file, an append path is ignored: only
\* replacement files are read, in order; an unreadable append file raises no
\* error; the result is the join of the replacement files alone.
C10_AppendIgnored ==
    LET fs == promptConfig.system_prompt_files
    IN  (fs # <<>> /\ IsSome(promptConfig.append_prompt_file)) =>
            /\ Len(filesRead) <= Len(fs)
            /\ \A i \in 1..Len(filesRead) : filesRead[i] = fs[i]
            /\ err.kind # "read_append_prompt_file"
            /\ AllReadable(fs) => pc # "load_failed"
            /\ pc = "loaded" => IsJoined(Unwrap(loaded), fs)

C10_Witness ==
    /\ pc = "loaded"
    /\ promptConfig.system_prompt_files = <<"a.md">>
    /\ promptConfig.append_prompt_file = Some("x.md")
    /\ filesRead = <<"a.md">>
    /\ err = NoError

\* C11: with no replacement files, a readable append file is returned raw,
\* trailing newline included, and is the only file read; with no append
\* path either, the result is the empty string, no file is read and no
\* error is raised.
C11_AppendOrEmpty ==
    LET ap == promptConfig.append_prompt_file
    IN  promptConfig.system_prompt_files = <<>> =>
            /\ (IsSome(ap) /\ Readable(Unwrap(ap))) =>
                  /\ pc # "load_failed"
                  /\ pc = "loaded" =>
                        /\ Unwrap(loaded) = Files[Unwrap(ap)]
                        /\ filesRead = <<Unwrap(ap)>>
                        /\ ap = Some("a.md") => Unwrap(loaded) = <<"A", "\n">>
            /\ ~IsSome(ap) =>
                  /\ filesRead = <<>>
                  /\ err = NoError
                  /\ pc # "load_failed"
                  /\ pc = "loaded" => Unwrap(loaded) = <<>>

C11_Witness ==
    /\ pc = "loaded"
    /\ promptConfig.system_prompt_files = <<>>
    /\ promptConfig.append_prompt_file = Some("a.md")
    /\ loaded = Some(<<"A", "\n">>)

\* The files load_system_prompt has to read, in order.
RequiredFiles ==
    IF promptConfig.system_prompt_files # <<>>
    THEN promptConfig.system_prompt_files
    ELSE IF IsSome(promptConfig.append_prompt_file)
    THEN <<Unwrap(promptConfig.append_prompt_file)>>
    ELSE <<>>

\* C12: load_system_prompt fails exactly at the first unreadable file it has
\* to read: the error carries that file's path, the files before it were
\* read and readable, no later file is read, nothing is returned; it
\* returns only when every file it has to read is readable.
C12_FailsAtFirstUnreadable ==
    /\ Len(filesRead) <= Len(RequiredFiles)
    /\ \A i \in 1..Len(filesRead) : filesRead[i] = RequiredFiles[i]
    /\ pc = "load_failed" =>
          /\ filesRead # <<>>
          /\ err.kind \in {"read_system_prompt_file", "read_append_prompt_file"}
          /\ err.path = filesRead[Len(filesRead)]
          /\ ~Readable(err.path)
          /\ \A i \in 1..(Len(filesRead) - 1) : Readable(filesRead[i])
          /\ loaded = None
    /\ pc = "loaded" => (AllReadable(RequiredFiles) /\ err = NoError)

C12_Witness ==
    /\ pc = "load_failed"
    /\ promptConfig.system_prompt_files = <<"x.md", "a.md">>
    /\ filesRead = <<"x.md">>
    /\ err.path = "x.md"

\* The command line holds a --system-prompt and an --append-system-prompt.
BothPromptFlags ==
    args.system_prompt_files # <<>> /\ IsSome(args.append_prompt_file)

\* C13 as stated: every command line with both prompt-file flags ends
\* parsing with a usage error naming the conflict; no configuration, no
\* file read, no loop.
C13_ConflictAlwaysUsageError ==
    (BothPromptFlags /\ pc # "parse") =>
        /\ pc = "failed"
        /\ err.kind = "usage_conflict"
        /\ config = None
        /\ filesRead = <<>>
        /\ out = <<>>
        /\ nreads = 0

\* C13 amended: with both prompt-file flags no configuration is produced, no
\* prompt file is read and the loop never starts; parsing ends with the
\* usage error naming the conflict unless the command line also asks for
\* help or the version or holds an unknown flag, which the parser acts on
\* first.
C13_ConflictRejected ==
    (BothPromptFlags /\ pc # "parse") =>
        /\ config = None
        /\ promptConfig = NoConfig
        /\ filesRead = <<>>
        /\ out = <<>>
        /\ nreads = 0
        /\ invocations = <<>>
        /\ args.mode = "run" => (pc = "failed" /\ err.kind = "usage_conflict")
        /\ args.mode = "unknown_flag" => (pc = "failed" /\ err.kind = "usage")
        /\ args.mode \in {"help", "version"} => (pc = "help_exit" /\ err = NoError)

C13_Witness ==
    /\ pc = "failed"
    /\ err.kind = "usage_conflict"
    /\ args.system_prompt_files = <<"a.md", "b.md">>
    /\ args.append_prompt_file = Some("a.md")

\* C14: execute_claude succeeds exactly when the program was started and
\* exited with status zero; a failed start gives the launch error, a
\* non-zero exit gives the exit-status error carrying the observed status.
C14_ExecuteOutcomes ==
    [][ /\ (pc = "dispatch" /\ pc' # "dispatch") =>
              \/ pc' = "running" /\ err' = NoError /\ running' = running + 1
              \/ /\ pc' = "failed"
                 /\ err'.kind = "launch"
                 /\ running' = running
                 /\ exitStatus' = exitStatus
        /\ (pc = "running" /\ pc' # "running") =>
              /\ IsSome(exitStatus')
              /\ \/ /\ Unwrap(exitStatus') = 0
                    /\ pc' = "prompt"
                    /\ err' = NoError
                 \/ /\ Unwrap(exitStatus') # 0
                    /\ pc' = "failed"
                    /\ err'.kind = "exit_status"
                    /\ err'.status = Unwrap(exitStatus') ]_vars

C14_Witness ==
    /\ pc = "failed"
    /\ err.kind = "exit_status"
    /\ err.status = 101
    /\ exitStatus = Some(101)

\* The number of elements of s equal to x.
RECURSIVE Count(_, _)
Count(s, x) ==
    IF s = <<>> THEN 0
    ELSE (IF Head(s) = x THEN 1 ELSE 0) + Count(Tail(s), x)

\* C15: every dispatched turn makes exactly one external invocation; when it
\* fails nothing more is printed, read or invoked and run has returned the
\* error.
C15_OneInvocationNoRetry ==
    /\ [](Len(invocations) =
             Count(out, "claude_prompt") - (IF pc = "dispatch" THEN 1 ELSE 0))
    /\ [][ /\ (pc \in {"dispatch", "running"} /\ pc' = "failed") =>
                 /\ out' = out
                 /\ nreads' = nreads
                 /\ err' # NoError
           /\ pc = "failed" => UNCHANGED vars ]_vars

C15_Witness ==
    /\ pc = "failed"
    /\ err.kind = "exit_status"
    /\ Len(invocations) = 2
    /\ out[Len(out)] = "claude_prompt"

\* The last line read was an exit keyword and the farewell was printed.
EndedByExitKeyword ==
    /\ nreads >= 1
    /\ out # <<>>
    /\ out[Len(out)] = "farewell"
    /\ ExitLine(input)

\* C16: once the process has ended its exit code is zero exactly when the
\* session ended through an exit keyword or help or the version was asked
\* for; whenever an error reached the top level the process has ended with a
\* non-zero code.
C16_ExitCodes ==
    /\ IsSome(process_exit_code) =>
          (Unwrap(process_exit_code) = 0 <=>
              (args.mode \in {"help", "version"} \/ EndedByExitKeyword))
    /\ err # NoError => (IsSome(process_exit_code) /\ Unwrap(process_exit_code) # 0)
    /\ EndedByExitKeyword => process_exit_code = Some(0)

C16_Witness ==
    /\ pc = "failed"
    /\ err.kind = "launch"
    /\ process_exit_code = Some(1)
    /\ nreads = 2

\* t is raw without its leading and trailing whitespace.
IsTrimOf(t, raw) ==
    \E i \in 0..Len(raw) : \E j \in i..Len(raw) :
        /\ t = SubSeq(raw, i + 1, j)
        /\ \A k \in 1..i : raw[k] \in WhiteSpace
        /\ \A k \in (j + 1)..Len(raw) : raw[k] \in WhiteSpace
        /\ t # <<>> => (t[1] \notin WhiteSpace /\ t[Len(t)] \notin WhiteSpace)

\* C17: the configuration is set once and never modified; the command of a
\* dispatched turn has the current line, trimmed, as its prompt and the
\* configuration's system prompt, append prompt and model; it is that
\* command the invocation is built from.
C17_ConfigReadOnly ==
    [][ /\ IsSome(config) => config' = config
        /\ (LineRead /\ pc' = "dispatch") =>
              /\ IsSome(command')
              /\ IsTrimOf(Unwrap(command').prompt, input')
              /\ Unwrap(command').prompt # <<>>
              /\ Unwrap(command').system_prompt = Unwrap(config).system_prompt
              /\ Unwrap(command').append_prompt = Unwrap(config).append_prompt
              /\ Unwrap(command').model = Unwrap(config).model
        /\ (pc = "dispatch" /\ pc' # "dispatch") =>
              /\ command' = command
              /\ Len(invocations') = Len(invocations) + 1
              /\ invocations'[Len(invocations')][3] = Unwrap(command).prompt ]_vars

C17_Witness ==
    /\ pc = "dispatch"
    /\ Len(invocations) = 1
    /\ invocations[1][3] = <<"h", "i">>
    /\ Unwrap(command).prompt = FlagSystemPrompt
    /\ Unwrap(command).model = Some(<<"m">>)

\* C18: prompt files are read only while loading, before anything is
\* printed, read from standard input or invoked, and never once the loop
\* has its configuration; a failed read ends the program with no banner, no
\* prompt marker, no input read and no invocation.
C18_ReadsBeforeLoop ==
    /\ [](Len(filesRead) <= Len(RequiredFiles))
    /\ [](pc = "load_failed" =>
             /\ out = <<>>
             /\ nreads = 0
             /\ invocations = <<>>
             /\ running = 0
             /\ config = None)
    /\ [][ /\ filesRead' # filesRead =>
                 /\ pc = "load"
                 /\ out = <<>>
                 /\ nreads = 0
                 /\ invocations = <<>>
                 /\ config = None
           /\ IsSome(config) => filesRead' = filesRead
           /\ pc = "load_failed" => UNCHANGED vars ]_vars

C18_Witness ==
    /\ pc = "load_failed"
    /\ args.system_prompt_files = <<"a.md", "x.md">>
    /\ filesRead = <<"a.md", "x.md">>
    /\ out = <<>>

\* C19: at most one external process runs at a time, and a line is read
\* from standard input only when none is running.
C19_NoOverlap ==
    /\ [](running \in {0, 1} /\ (running = 1 <=> pc = "running"))
    /\ [][ /\ nreads' # nreads => (running = 0 /\ running' = 0)
           /\ running' > running => running = 0 ]_vars

C19_Witness ==
    /\ pc = "running"
    /\ running = 1
    /\ Len(invocations) = 2
    /\ exitStatus = Some(0)

\* The arguments a hold the flag at one of the places of an optional pair.
HasPairOf(a, flag) ==
    \E k \in {4, 6, 8} : k + 1 <= Len(a) - 3 /\ a[k] = flag

\* The value that follows the flag at the first such place.
ValueOf(a, flag) ==
    a[(CHOOSE k \in {4, 6, 8} :
          /\ k + 1 <= Len(a) - 3
          /\ a[k] = flag
          /\ \A j \in {4, 6, 8} : (j < k /\ j + 1 <= Len(a) - 3) => a[j] # flag) + 1]

\* A field that is present and not the empty string.
NonEmpty(o) == IsSome(o) /\ Unwrap(o) # <<>>

\* C20 as stated: a field's pair is emitted exactly when the field is
\* non-empty; a present but empty string gives no flag and no value.
C20_PairIffNonEmpty ==
    pc = "built" =>
        LET a == Unwrap(built)
            c == Unwrap(command)
        IN  /\ HasPairOf(a, FlagSystemPrompt) <=> NonEmpty(c.system_prompt)
            /\ HasPairOf(a, FlagAppendSystemPrompt) <=> NonEmpty(c.append_prompt)
            /\ HasPairOf(a, FlagModel) <=> NonEmpty(c.model)

\* C20 amended: a field's pair is emitted exactly when the field is present;
\* a present but empty string gives the flag followed by an empty value, an
\* absent field gives no flag and no value.
C20_PairIffPresent ==
    pc = "built" =>
        LET a == Unwrap(built)
            c == Unwrap(command)
        IN  /\ HasPairOf(a, FlagSystemPrompt) <=> IsSome(c.system_prompt)
            /\ HasPairOf(a, FlagAppendSystemPrompt) <=> IsSome(c.append_prompt)
            /\ HasPairOf(a, FlagModel) <=> IsSome(c.model)
            /\ IsSome(c.system_prompt) =>
                  ValueOf(a, FlagSystemPrompt) = Unwrap(c.system_prompt)
            /\ IsSome(c.append_prompt) =>
                  ValueOf(a, FlagAppendSystemPrompt) = Unwrap(c.append_prompt)
            /\ IsSome(c.model) => ValueOf(a, FlagModel) = Unwrap(c.model)
            /\ Len(a) = 6 + 2 * Cardinality({f \in {"s", "a", "m"} :
                                \/ f = "s" /\ IsSome(c.system_prompt)
                                \/ f = "a" /\ IsSome(c.append_prompt)
                                \/ f = "m" /\ IsSome(c.model)})

C20_Witness ==
    /\ pc = "built"
    /\ Unwrap(command).system_prompt = Some(<<>>)
    /\ Unwrap(command).append_prompt = None
    /\ Unwrap(command).model = Some(<<>>)
    /\ Unwrap(built)[4] = FlagSystemPrompt
    /\ Unwrap(built)[5] = <<>>
    /\ Len(Unwrap(built)) = 10

\* ---------------------------------------------------------------- C21
\* t is an exit keyword as it stands: "exit" or "quit" in some letter-casing,
\* the whole text, nothing before or after.
WholeKeyword(t) == SameIgnoringCase(t, KwExit) \/ SameIgnoringCase(t, KwQuit)

\* t is not empty and neither starts nor ends with whitespace.
TrimmedNonEmpty(t) ==
    /\ t # <<>>
    /\ t[1] \notin WhiteSpace
    /\ t[Len(t)] \notin WhiteSpace

\* C21: is_exit_command returns true exactly for the texts that are, as a
\* whole and without any trimming, "exit" or "quit" in some letter-casing: a
\* keyword with whitespace before or after it, the empty text and a longer
\* text holding a keyword give false.  Inside run the function is only ever
\* called on the trimmed, non-empty form of the line just read.
C21_ExitExactlyKeyword ==
    /\ [](pc = "is_exit_ret" =>
            returns = <<WholeKeyword(Unwrap(isExitArg))>>)
    /\ [](pc \notin {"is_exit", "is_exit_ret"} /\ IsSome(isExitArg) =>
            TrimmedNonEmpty(Unwrap(isExitArg)))
    /\ [][ pc = "read" =>
            /\ isExitArg' # isExitArg =>
                  /\ LineRead
                  /\ IsSome(isExitArg')
                  /\ IsTrimOf(Unwrap(isExitArg'), input')
            /\ pc' \in {"done", "dispatch"} =>
                  /\ IsSome(isExitArg')
                  /\ IsTrimOf(Unwrap(isExitArg'), input')
                  /\ (pc' = "done") = WholeKeyword(Unwrap(isExitArg')) ]_vars

\* C21 witness: is_exit_command was called on "exit " (a keyword and a
\* trailing blank) and returned false.
C21_Witness ==
    /\ pc = "is_exit_ret"
    /\ isExitArg = Some(<<"e", "x", "i", "t", " ">>)
    /\ returns = <<FALSE>>

\* ---------------------------------------------------------------- C22
\* The first line of the text d: up to and including its first line feed,
\* or all of d when it has none.
FirstLineOf(d) ==
    IF \E k \in 1..Len(d) : d[k] = "\n"
    THEN SubSeq(d, 1, CHOOSE k \in 1..Len(d) :
                         d[k] = "\n" /\ \A j \in 1..(k - 1) : d[j] # "\n")
    ELSE d

TextExitLine == <<"e", "x", "i", "t", "\n">>

\* C22: the first call of read_input on a reader that delivers its bytes
\* returns Ok(None) exactly when the reader's first line has nothing but
\* whitespace (an empty reader included), and otherwise Ok(Some(s)) with s
\* the first line without its leading and trailing whitespace, the inner
\* characters as they are; an "exit" line comes back as Some("exit").  Only
\* a reader whose read fails gives Err.
C22_ReadInputFirstLine ==
    returns # <<>> =>
        LET ret == returns[1]
            first == FirstLineOf(reader.data)
        IN  IF reader.kind = "failing" THEN ret = ErrRead
            ELSE /\ ret.ok
                 /\ (ret.value = None) = BlankLine(first)
                 /\ ~BlankLine(first) =>
                       /\ IsSome(ret.value)
                       /\ IsTrimOf(Unwrap(ret.value), first)
                 /\ reader.data = TextExitLine => ret = OkOf(Some(KwExit))

\* C22 witness: read_input was called on " hi \r\nyo\n" and returned Some("hi").
C22_Witness ==
    /\ Len(returns) = 1
    /\ reader.data = <<" ", "h", "i", " ", "\r", "\n", "y", "o", "\n">>
    /\ returns[1] = OkOf(Some(<<"h", "i">>))

\* ---------------------------------------------------------------- C25
\* d holds two lines or more: a line feed with something after it.
TwoLinesOrMore(d) == \E k \in 1..(Len(d) - 1) : d[k] = "\n"

\* C25: on a reader holding its bytes in memory, two lines or more that
\* fit in one fill of the buffer, the first call of read_input takes every
\* byte from the reader, more than the line it returns, and the second call
\* returns Ok(None), not the second line.  A reader at its end gives
\* Ok(None) as well, the value an empty line gives.
C25_SecondCallLosesLine ==
    /\ (/\ reader.kind = "cursor"
        /\ TwoLinesOrMore(reader.data)
        /\ Len(reader.data) <= DefaultBufSize
        /\ returns # <<>>) =>
            /\ reader.pos = Len(reader.data)
            /\ reader.pos > Len(FirstLineOf(reader.data))
            /\ Len(returns) >= 2 => returns[2] = OkOf(None)
    /\ (/\ reader.kind # "failing"
        /\ reader.data \in {<<>>, <<"\n">>}) =>
            \A i \in 1..Len(returns) : returns[i] = OkOf(None)

\* C25 witness: on "exit\nhi\n" the first call returned Some("exit") and the
\* second call None.
C25_Witness ==
    /\ reader.kind = "cursor"
    /\ reader.data = <<"e", "x", "i", "t", "\n", "h", "i", "\n">>
    /\ returns = <<OkOf(Some(KwExit)), OkOf(None)>>

\* ---------------------------------------------------------------- C23
\* The last thing printed.
LastOut == IF out = <<>> THEN "" ELSE out[Len(out)]

\* C23: the loop prints in a fixed order.  Every read of standard input has
\* the user-prompt marker as the last thing printed before it.  The
\* assistant marker is printed once per dispatched turn, by the step that
\* read the turn's line, and is the last thing printed when the external
\* program is started.  A blank line is printed by a successful end of the
\* external program and by nothing else.  The farewell is printed at most
\* once, by the read of an exit keyword and by nothing else, and is the last
\* thing printed.  Every step prints at most one thing.
C23_OutputOrder ==
    /\ [](/\ Count(out, "farewell") <= 1
          /\ Count(out, "farewell") = 1 => (LastOut = "farewell" /\ pc = "done")
          /\ Count(out, "claude_prompt")
                = Len(invocations) + (IF pc = "dispatch" THEN 1 ELSE 0))
    /\ [][ /\ nreads' # nreads => LastOut = "user_prompt"
           /\ invocations' # invocations => LastOut = "claude_prompt"
           /\ out' # out =>
                 \E e \in {"welcome", "user_prompt", "claude_prompt", "blank", "farewell"} :
                    /\ out' = Append(out, e)
                    /\ e = "welcome" => pc = "loaded"
                    /\ e = "user_prompt" => pc = "prompt"
                    /\ e = "claude_prompt" =>
                          (LineRead /\ pc' = "dispatch" /\ invocations' = invocations)
                    /\ e = "blank" => (pc = "running" /\ exitStatus' = Some(0))
                    /\ e = "farewell" => (LineRead /\ pc' = "done" /\ ExitLine(input'))
           /\ (pc = "running" /\ pc' # pc /\ exitStatus' = Some(0)) =>
                 out' = Append(out, "blank")
           /\ (pc = "read" /\ pc' = "dispatch") => out' = Append(out, "claude_prompt")
           /\ (LineRead /\ ExitLine(input')) => out' = Append(out, "farewell") ]_vars

\* C23 witness: one successful turn, then an exit keyword.
C23_Witness ==
    /\ pc = "done"
    /\ out = <<"welcome", "user_prompt", "claude_prompt", "blank", "user_prompt", "farewell">>

\* ---------------------------------------------------------------- C24
\* C24 as stated: once standard input is at end-of-file the loop never ends,
\* neither through the farewell nor with an error, and dispatches nothing.
C24_EofNeverEnds ==
    [][ AtEof => (pc' \notin {"done", "failed"} /\ invocations' = invocations) ]_vars

\* C24, amended: once standard input is at end-of-file it stays there; every
\* read yields zero bytes, dispatches nothing, prints nothing and leads back
\* to the user-prompt marker, which is printed again; the loop never prints
\* the farewell, never ends normally and gets no error from a read.  As long
\* as the flush of the marker succeeds the next read is possible; the one
\* way out of the loop is a flush that fails, which run returns as an error.
C24_EofLoopsUntilFlushFails ==
    /\ [](AtEof =>
            /\ pc \in {"prompt", "read", "failed"}
            /\ pc = "failed" => err.kind = "io_flush"
            /\ pc = "prompt" => ENABLED RunPrompt
            /\ (pc = "read" /\ nreads < MaxReads) => ENABLED RunReadLine)
    /\ [][ AtEof =>
            /\ AtEof'
            /\ invocations' = invocations
            /\ command' = command
            /\ pc = "read" =>
                  (/\ nreads' = nreads + 1
                   /\ input' = <<>>
                   /\ pc' = "prompt"
                   /\ out' = out
                   /\ err' = err)
            /\ pc = "prompt" =>
                  (/\ out' = Append(out, "user_prompt")
                   /\ nreads' = nreads
                   /\ \/ pc' = "read" /\ err' = err
                      \/ pc' = "failed" /\ err'.kind = "io_flush") ]_vars

\* C24 witness: two reads at end-of-file, the marker printed a third time.
C24_Witness ==
    /\ AtEof
    /\ nreads = 2
    /\ pc = "read"
    /\ out = <<"welcome", "user_prompt", "user_prompt", "user_prompt">>

\* ---------------------------------------------------------------- C26
\* C26: for a start with replacement system-prompt files, once the dialog
\* has its configuration: when the joined contents are the empty string the
\* configuration has no system prompt and no external invocation has a
\* system-prompt pair, although --system-prompt was given; when they are not
\* empty every external invocation has "--system-prompt" right after the
\* prompt, followed by exactly the joined contents, and has no
\* append-system-prompt pair.
C26_ReplacementPrompt ==
    LET fs == args.system_prompt_files
    IN  (fs # <<>> /\ IsSome(config)) =>
            LET cfg == Unwrap(config)
                joined == Unwrap(loaded)
            IN  /\ IsJoined(joined, fs)
                /\ cfg.append_prompt = None
                /\ IF TotalLen(fs) + 2 * (Len(fs) - 1) = 0
                   THEN /\ cfg.system_prompt = None
                        /\ \A i \in 1..Len(invocations) :
                              ~HasPairOf(invocations[i], FlagSystemPrompt)
                   ELSE /\ cfg.system_prompt = Some(joined)
                        /\ \A i \in 1..Len(invocations) :
                              /\ invocations[i][4] = FlagSystemPrompt
                              /\ invocations[i][5] = joined
                              /\ ~HasPairOf(invocations[i], FlagAppendSystemPrompt)

\* C26 witness: started with the single empty file e.md, a turn was
\* dispatched and its invocation has no system-prompt pair.
C26_Witness ==
    /\ args.system_prompt_files = <<"e.md">>
    /\ Len(invocations) = 1
    /\ ~HasPairOf(invocations[1], FlagSystemPrompt)
    /\ invocations[1][3] = <<"h", "i">>

====
